---- MODULE Spec2Model ----
(***************************************************************************)
(* config_to_pot: extract the translatable strings of an os-installer      *)
(* config (YAML) into po/config.pot.                                       *)
(*                                                                         *)
(* The script is one sequential process.  Its state is the process         *)
(* position (pc), the parsed document, the two file handles, standard      *)
(* output / error and the exit status, together with the part of the file  *)
(* system it touches: the config file, the po directory and po/config.pot. *)
(* A finished run may be followed by a second run of the tool on the same  *)
(* file system.                                                            *)
(*                                                                         *)
(* Modelled input domain: the command line is any sequence of strings;     *)
(* the document is built of None, str, list and dict with str keys, in any *)
(* shape; strings hold printable ASCII characters, tabs, line breaks and   *)
(* carriage returns; the file system is a tree of directories and regular  *)
(* files, without links, in which the script may read and write            *)
(* everything; the file system may cap the size of a file (a file size     *)
(* limit, a quota, a full device): it then takes the characters of a write *)
(* up to the cap and refuses the rest.                                     *)
(***************************************************************************)
EXTENDS Naturals, Sequences, FiniteSets

\* Bounds on the documents drawn in Init.
MaxDesktops == 2
MaxChoices == 2
MaxOptions == 2

-----------------------------------------------------------------------------
(* Python values: what yaml.load returns, and the strings of the command   *)
(* line.  The characters of a string are its substrings of length one.     *)

\* None (an empty document, or a key with no value).
Null == [t |-> "null"]
\* Marks a key that the mapping does not hold.
Absent == [t |-> "absent"]
\* A str.
Str(s) == [t |-> "str", s |-> s]
\* A list.
List(items) == [t |-> "seq", items |-> items]
\* A dict with str keys: its items, each a pair <<key, value>>, in the order
\* the dict holds them.
Dict(pairs) == [t |-> "map", pairs |-> pairs]

\* The strings a translatable field holds in the documents of Init.
Texts == {Str("A"), Str("B")}
\* A key: not in the mapping, or holding a string.
Field == {Absent} \cup Texts

\* Sequences over S of length 0..n.
SeqUpTo(S, n) == UNION {[1..k -> S] : k \in 0..n}

CharAt(s, i) == SubSeq(s, i, i)
\* `sub in s` on two str.
IsSubstring(sub, s) ==
    \E i \in 1..(Len(s) + 1) : i + Len(sub) <= Len(s) + 1 /\ SubSeq(s, i, i + Len(sub) - 1) = sub
StartsWith(s, prefix) == Len(prefix) <= Len(s) /\ SubSeq(s, 1, Len(prefix)) = prefix
\* s without its first n characters.
Drop(s, n) == SubSeq(s, n + 1, Len(s))

\* The keys of a dict, `key in dict` and dict[key] for a key it holds.
Keys(obj) == [i \in 1..Len(obj.pairs) |-> obj.pairs[i][1]]
HasKey(obj, key) == \E i \in 1..Len(obj.pairs) : obj.pairs[i][1] = key
Get(obj, key) ==
    IF obj.t = "map" /\ HasKey(obj, key)
    THEN obj.pairs[CHOOSE i \in 1..Len(obj.pairs) : obj.pairs[i][1] = key][2]
    ELSE Absent

\* `key in obj` raises TypeError on None.
InRaises(obj) == obj.t = "null"
\* `key in obj`: a key of a dict, a substring of a str, an element of a list.
In(key, obj) ==
    CASE obj.t = "map" -> HasKey(obj, key)
      [] obj.t = "str" -> IsSubstring(key, obj.s)
      [] obj.t = "seq" -> \E i \in 1..Len(obj.items) : obj.items[i] = Str(key)
      [] OTHER -> FALSE
\* `obj[key]` with a str key raises TypeError on a str and on a list.
SubscriptRaises(obj) == obj.t # "map"
\* `for x in obj` raises TypeError on None.
IterRaises(obj) == obj.t = "null"
\* `for x in obj`: the elements of a list, the characters of a str, the keys
\* of a dict.
Iter(obj) ==
    CASE obj.t = "seq" -> obj.items
      [] obj.t = "str" -> [i \in 1..Len(obj.s) |-> Str(CharAt(obj.s, i))]
      [] obj.t = "map" -> [i \in 1..Len(Keys(obj)) |-> Str(Keys(obj)[i])]
      [] OTHER -> <<>>

\* repr() of a str of printable ASCII characters, tabs, newlines and returns.
RECURSIVE Escaped(_, _)
Escaped(s, quote) ==
    IF s = "" THEN ""
    ELSE LET c == CharAt(s, 1) IN
         (CASE c = "\\" -> "\\\\"
            [] c = "\n" -> "\\n"
            [] c = "\t" -> "\\t"
            [] c = "\r" -> "\\r"
            [] c = quote -> "\\" \o c
            [] OTHER -> c)
         \o Escaped(Drop(s, 1), quote)
ReprStr(s) ==
    IF IsSubstring("'", s) /\ ~IsSubstring("\"", s)
    THEN "\"" \o Escaped(s, "") \o "\""
    ELSE "'" \o Escaped(s, "'") \o "'"

\* repr() of a value.
RECURSIVE Repr(_)
RECURSIVE ReprItems(_, _)
RECURSIVE ReprPairs(_, _)
Repr(value) ==
    CASE value.t = "str" -> ReprStr(value.s)
      [] value.t = "seq" -> "[" \o ReprItems(value.items, 1) \o "]"
      [] value.t = "map" -> "{" \o ReprPairs(value.pairs, 1) \o "}"
      [] OTHER -> "None"
ReprItems(items, i) ==
    IF i > Len(items) THEN ""
    ELSE (IF i > 1 THEN ", " ELSE "") \o Repr(items[i]) \o ReprItems(items, i + 1)
ReprPairs(pairs, i) ==
    IF i > Len(pairs) THEN ""
    ELSE (IF i > 1 THEN ", " ELSE "") \o ReprStr(pairs[i][1]) \o ": " \o Repr(pairs[i][2])
         \o ReprPairs(pairs, i + 1)

\* str() of a value, as an f-string applies it.
Format(value) == IF value.t = "str" THEN value.s ELSE Repr(value)

-----------------------------------------------------------------------------
(* The effects of the handlers, in program order: a write to pot_file, a   *)
(* print to standard output, or an exception leaving the handler.          *)

Write(s) == [op |-> "write", s |-> s]
\* print(f'{msg}: {obj}')
Stdout(msg, obj) ==
    [op |-> "print", msg |-> msg, obj |-> obj, line |-> msg \o ": " \o Format(obj)]
\* print(line)
StdoutLine(line) == [op |-> "print", msg |-> line, obj |-> Absent, line |-> line]
Raise == [op |-> "raise"]

Raised(effects) == Len(effects) > 0 /\ effects[Len(effects)].op = "raise"
\* Sequential composition: nothing runs after an exception.
Then(first, second) == IF Raised(first) THEN first ELSE first \o second

\* add_to_pot(text, pot_file)
AddToPot(text) == <<Write("msgid \"" \o Format(text) \o "\"\nmsgstr \"\"\n\n")>>

\* add_to_pot(obj[key], pot_file)
AddKey(obj, key) == IF SubscriptRaises(obj) THEN <<Raise>> ELSE AddToPot(Get(obj, key))

\* A variant of HandleOption that reports every option without a name.
HandleOptionReportsUnnamed(option) ==
    IF InRaises(option) THEN <<Raise>>
    ELSE IF In("name", option) THEN AddKey(option, "name")
    ELSE <<Stdout("Invalid option", option)>>

\* Lines 36-39: the body of the loop over a choice's options.
HandleOption(option) ==
    IF InRaises(option) THEN <<Raise>>
    ELSE IF In("name", option) THEN AddKey(option, "name")
    ELSE IF ~In("name", option) /\ ~In("option", option)
         THEN <<Stdout("Invalid option", option)>>
    ELSE <<>>

\* Line 35: `for option in options`, from the j-th option on.
RECURSIVE OptionsFrom(_, _)
OptionsFrom(items, j) ==
    IF j > Len(items) THEN <<>>
    ELSE Then(HandleOption(items[j]), OptionsFrom(items, j + 1))

\* Lines 34-39: options = choice['options'] and the loop over it.
HandleOptions(choice) ==
    IF SubscriptRaises(choice) THEN <<Raise>>
    ELSE IF IterRaises(Get(choice, "options")) THEN <<Raise>>
    ELSE OptionsFrom(Iter(Get(choice, "options")), 1)

\* A variant of HandleChoice that skips a choice without a name.
HandleChoiceSkipsNameless(choice) ==
    IF InRaises(choice) THEN <<Raise>>
    ELSE IF ~In("name", choice) THEN <<Stdout("Invalid choice", choice)>>
    ELSE Then(AddKey(choice, "name"),
         Then(IF In("description", choice) THEN AddKey(choice, "description")
              ELSE <<>>,
              IF In("options", choice) THEN HandleOptions(choice)
              ELSE <<>>))

\* A variant of HandleChoice that handles the options before the description.
HandleChoiceOptionsFirst(choice) ==
    IF InRaises(choice) THEN <<Raise>>
    ELSE Then(IF In("name", choice) THEN AddKey(choice, "name")
              ELSE <<Stdout("Invalid choice", choice)>>,
         Then(IF In("options", choice) THEN HandleOptions(choice)
              ELSE <<>>,
              IF In("description", choice) THEN AddKey(choice, "description")
              ELSE <<>>))

\* Lines 27-39: the body of the loop over the choices.
HandleChoice(choice) ==
    IF InRaises(choice) THEN <<Raise>>
    ELSE Then(IF In("name", choice) THEN AddKey(choice, "name")
              ELSE <<Stdout("Invalid choice", choice)>>,
         Then(IF In("description", choice) THEN AddKey(choice, "description")
              ELSE <<>>,
              IF In("options", choice) THEN HandleOptions(choice)
              ELSE <<>>))

RECURSIVE ChoicesFrom(_, _)
ChoicesFrom(items, i) ==
    IF i > Len(items) THEN <<>>
    ELSE Then(HandleChoice(items[i]), ChoicesFrom(items, i + 1))

\* handle_choices(choices, pot_file)
HandleChoices(choices) ==
    IF IterRaises(choices) THEN <<Raise>> ELSE ChoicesFrom(Iter(choices), 1)

\* A variant of HandleDesktopEntry that skips a desktop without a name.
HandleDesktopEntrySkipsNameless(desktop) ==
    IF InRaises(desktop) THEN <<Raise>>
    ELSE IF ~In("name", desktop) THEN <<Stdout("Invalid desktop", desktop)>>
    ELSE Then(AddKey(desktop, "name"),
              IF In("description", desktop) THEN AddKey(desktop, "description")
              ELSE <<>>)

\* Lines 44-49: the body of the loop over the desktops.
HandleDesktopEntry(desktop) ==
    IF InRaises(desktop) THEN <<Raise>>
    ELSE Then(IF In("name", desktop) THEN AddKey(desktop, "name")
              ELSE <<Stdout("Invalid desktop", desktop)>>,
              IF In("description", desktop) THEN AddKey(desktop, "description")
              ELSE <<>>)

RECURSIVE DesktopsFrom(_, _)
DesktopsFrom(items, i) ==
    IF i > Len(items) THEN <<>>
    ELSE Then(HandleDesktopEntry(items[i]), DesktopsFrom(items, i + 1))

\* handle_desktop(desktops, pot_file)
HandleDesktop(desktops) ==
    IF IterRaises(desktops) THEN <<Raise>> ELSE DesktopsFrom(Iter(desktops), 1)

\* Lines 54-56 of handle_config: welcome_page = config['welcome_page'] and
\* the test for its text.
HandleWelcome(config) ==
    IF SubscriptRaises(config) THEN <<Raise>>
    ELSE IF InRaises(Get(config, "welcome_page")) THEN <<Raise>>
    ELSE IF In("text", Get(config, "welcome_page"))
         THEN AddKey(Get(config, "welcome_page"), "text")
    ELSE <<>>

\* Lines 58-59 of handle_config.
HandleDesktopSection(config) ==
    IF ~In("desktop", config) THEN <<>>
    ELSE IF SubscriptRaises(config) THEN <<Raise>>
    ELSE HandleDesktop(Get(config, "desktop"))

\* Lines 61-62 and 64-65 of handle_config, for the key of either line.
HandleChoicesSection(config, key) ==
    IF ~In(key, config) THEN <<>>
    ELSE IF SubscriptRaises(config) THEN <<Raise>>
    ELSE HandleChoices(Get(config, key))

\* handle_config(config, pot_file)
HandleConfig(config) ==
    IF InRaises(config) THEN <<Raise>>
    ELSE Then(IF In("welcome_page", config) THEN HandleWelcome(config) ELSE <<>>,
         Then(HandleDesktopSection(config),
         Then(HandleChoicesSection(config, "additional_software"),
              HandleChoicesSection(config, "additional_features"))))

\* The string write_pot_header writes.
PotHeader ==
    "# SOME DESCRIPTIVE TITLE.\n"
    \o "# Copyright (C) YEAR THE PACKAGE'S COPYRIGHT HOLDER\n"
    \o "# This file is distributed under the same license as the os-installer package.\n"
    \o "# FIRST AUTHOR <EMAIL@ADDRESS>, YEAR.\n"
    \o "#\n"
    \o "msgid \"\"\n"
    \o "msgstr \"\"\n"
    \o "\"Project-Id-Version: os-installer-config\\n\"\n"
    \o "\"Report-Msgid-Bugs-To: \\n\"\n"
    \o "\"POT-Creation-Date: 2023-08-18 03:39+0100\\n\"\n"
    \o "\"PO-Revision-Date: YEAR-MO-DA HO:MI+ZONE\\n\"\n"
    \o "\"Last-Translator: FULL NAME <EMAIL@ADDRESS>\\n\"\n"
    \o "\"Language-Team: LANGUAGE <LL@li.org>\\n\"\n"
    \o "\"Language: \\n\"\n"
    \o "\"MIME-Version: 1.0\\n\"\n"
    \o "\"Content-Type: text/plain; charset=UTF-8\\n\"\n"
    \o "\"Content-Transfer-Encoding: 8bit\\n\"\n\n"

\* write_pot_header(pot_file)
WritePotHeader == <<Write(PotHeader)>>

\* A variant of WithBody that writes the header after the entries.
WithBodyHeaderLast(config) == Then(HandleConfig(config), WritePotHeader)

\* Lines 99-100: the body of `with open(pot_path, 'w') as pot_file`.
WithBody(config) == Then(WritePotHeader, HandleConfig(config))

-----------------------------------------------------------------------------
(* The documents of Init.                                                  *)

\* The dict of the given items that are not Absent.
DictOf(pairs) == Dict(SelectSeq(pairs, LAMBDA pair : pair[2] # Absent))
Option(name, option) == DictOf(<<<<"name", name>>, <<"option", option>>>>)
Choice(name, description, options) ==
    DictOf(<<<<"name", name>>, <<"description", description>>, <<"options", options>>>>)
Desktop(name, description) == DictOf(<<<<"name", name>>, <<"description", description>>>>)
Welcome(text) == DictOf(<<<<"text", text>>>>)
Config(welcome_page, desktop, additional_software, additional_features) ==
    DictOf(<<<<"welcome_page", welcome_page>>, <<"desktop", desktop>>,
             <<"additional_software", additional_software>>,
             <<"additional_features", additional_features>>>>)

Lists(S, n) == {List(items) : items \in SeqUpTo(S, n)}

OptionEntries == {Null} \cup {Option(n, o) : n \in Field, o \in {Absent, Str("A")}}
OptionValues == {Absent, Null} \cup Lists(OptionEntries, MaxOptions)
DesktopEntries == {Null} \cup {Desktop(n, d) : n \in Field, d \in Field}
DesktopValues == {Absent, Null} \cup Lists(DesktopEntries, MaxDesktops)
\* Choices without options.
PlainChoices == {Null} \cup {Choice(n, d, Absent) : n \in Field, d \in Field}
ChoiceValues == {Absent, Null} \cup Lists(PlainChoices, MaxChoices)
WelcomeValues == {Absent, Null} \cup {Welcome(x) : x \in Field \cup {Null}}

\* Documents that vary the welcome page, and the empty document.
DocsWelcome == {Null} \cup {Config(w, Absent, Absent, Absent) : w \in WelcomeValues}
\* Documents that vary the desktop sequence.
DocsDesktop ==
    {Config(w, d, Absent, Absent) :
        w \in {Absent, Welcome(Str("A"))}, d \in DesktopValues}
\* Documents that vary one of the two choice sequences.
DocsChoices ==
    {Config(Absent, Absent, s, f) :
        s \in ChoiceValues, f \in {Absent, List(<<Choice(Str("B"), Absent, Absent)>>)}}
    \cup
    {Config(Absent, Absent, s, f) :
        s \in {Absent, List(<<Choice(Str("A"), Str("B"), Absent)>>)}, f \in ChoiceValues}
\* Documents that vary the options of a choice, with or without a next choice.
DocsOptions ==
    {Config(Absent, Absent, List(<<Choice(n, d, o)>> \o rest), Absent) :
        n \in {Absent, Str("A")}, d \in {Absent, Str("B")}, o \in OptionValues,
        rest \in {<<>>, <<Choice(Str("B"), Absent, Absent)>>}}
\* Documents that hold all four sections.
MixedDesktops ==
    {Absent, Null, List(<<Desktop(Str("A"), Str("B"))>>),
     List(<<Desktop(Absent, Str("A")), Desktop(Str("B"), Absent)>>)}
MixedChoices ==
    {Absent, List(<<Null>>)}
    \cup {List(<<Choice(n, Str("B"), o)>>) :
            n \in {Absent, Str("A")},
            o \in {Absent, List(<<Option(Str("B"), Absent), Option(Str("A"), Absent)>>)}}
    \cup {List(<<Choice(Str("B"), Absent, List(<<Option(Str("A"), Absent)>>)),
                 Choice(Str("A"), Str("A"), Absent)>>)}
DocsMixed ==
    {Config(w, d, s, f) :
        w \in {Absent, Welcome(Str("A"))}, d \in MixedDesktops,
        s \in MixedChoices, f \in MixedChoices}

\* Values of a translatable field that are not strings.
OtherTexts == {Null, List(<<>>), List(<<Str("a")>>), Welcome(Str("A"))}
\* Documents that hold another kind of node than the schema names, or the keys
\* of an entry in another order.
OtherWelcomes ==
    {Str("x"), Str("text"), List(<<Str("text")>>)} \cup {Welcome(x) : x \in OtherTexts}
OtherDesktops ==
    {Str(""), Str("ab"), Desktop(Str("A"), Absent), Welcome(Str("A")), Dict(<<>>),
     List(<<Str("x"), Desktop(Str("A"), Absent)>>),
     List(<<Desktop(Str("A"), Str("B")), Str("name")>>),
     List(<<Str("description")>>),
     List(<<List(<<Str("name")>>)>>),
     List(<<Dict(<<<<"description", Str("B")>>, <<"name", Str("A")>>>>)>>),
     List(<<Desktop(List(<<Str("a")>>), Null)>>)}
OtherChoices ==
    {Str("ab"), List(<<Str("options")>>),
     List(<<Choice(Str("A"), Absent, Str("xy"))>>),
     List(<<Choice(Str("A"), Null, Option(Str("A"), Absent))>>),
     List(<<Choice(Str("A"), Absent, Dict(<<>>))>>),
     List(<<Choice(Absent, Absent, List(<<Str("x"), Str("option"), Str("name")>>))>>)}
DocsOther ==
    {Str("hello"), Str("desktop"), List(<<>>), List(<<Str("desktop")>>)}
    \cup {Config(w, d, Absent, Absent) :
            w \in {Absent} \cup OtherWelcomes, d \in {Absent} \cup OtherDesktops}
    \cup {Config(Absent, Absent, s, f) :
            s \in {Absent} \cup OtherChoices, f \in {Absent} \cup OtherChoices}

DocSet == DocsDesktop \cup DocsChoices \cup DocsOptions \cup DocsMixed \cup DocsOther

-----------------------------------------------------------------------------
(* The environment of a run.                                               *)

ConfigPath == "config.yaml"
\* What an earlier, unrelated writer left in po/config.pot, and in a regular
\* file that is in the place of po.
Stale == <<"stale">>

\* The file system is a tree of directories and regular files: a function from
\* the places where something is, each the sequence of names that lead to it
\* from the root, to what is there.  The script runs in the directory Cwd.
Dir == [kind |-> "dir"]
File(content) == [kind |-> "file", content |-> content]
\* What a regular file holds: a YAML text, as what yaml.load makes of it, or
\* the strings a writer wrote.
Yaml(st, doc) == [form |-> "yaml", st |-> st, doc |-> doc]
Text(strings) == [form |-> "text", strings |-> strings]
Cwd == <<"work">>

\* The size the file system lets a file grow to, in characters: no limit, or a
\* limit that nothing fits in, that cuts the header, that the header just fits
\* in, that cuts the first entry behind it, or that cuts a later entry.
Unlimited == [limited |-> FALSE]
Limit(size) == [limited |-> TRUE, size |-> size]
HeaderSize == Len(PotHeader)
Limits ==
    {Limit(0), Limit(100), Limit(HeaderSize), Limit(HeaderSize + 10),
     Limit(HeaderSize + 30)}

\* po is absent, a directory or a regular file; po/config.pot is absent, a
\* regular file (of another writer, or the template of an earlier run on an
\* empty mapping) or a directory.
FsStates ==
    {[poDir |-> "absent", potKind |-> "absent", potDisk |-> <<>>],
     [poDir |-> "file", potKind |-> "absent", potDisk |-> <<>>],
     [poDir |-> "dir", potKind |-> "absent", potDisk |-> <<>>],
     [poDir |-> "dir", potKind |-> "file", potDisk |-> Stale],
     [poDir |-> "dir", potKind |-> "file", potDisk |-> <<PotHeader>>],
     [poDir |-> "dir", potKind |-> "dir", potDisk |-> <<>>]}
\* No po directory yet, and a po/config.pot of an earlier, unrelated writer.
Fresh == {fs \in FsStates : fs.poDir = "absent"}
WithStale == {fs \in FsStates : fs.potDisk = Stale}
FreshOrStale == Fresh \cup WithStale

ConfigFile(st, doc) == [st |-> st, doc |-> doc]

\* The tree in which the working directory holds the config file c, if any,
\* and po and po/config.pot as fs says.
TreeOf(c, fs) ==
    LET entries ==
            {<<<<>>, Dir>>, <<Cwd, Dir>>}
            \cup (IF c.st = "missing" THEN {}
                  ELSE {<<Append(Cwd, ConfigPath), File(Yaml(c.st, c.doc))>>})
            \cup (IF fs.poDir = "absent" THEN {}
                  ELSE IF fs.poDir = "dir" THEN {<<Append(Cwd, "po"), Dir>>}
                  ELSE {<<Append(Cwd, "po"), File(Text(Stale))>>})
            \cup (IF fs.potKind = "absent" THEN {}
                  ELSE IF fs.potKind = "dir" THEN {<<Cwd \o <<"po", "config.pot">>, Dir>>}
                  ELSE {<<Cwd \o <<"po", "config.pot">>, File(Text(fs.potDisk))>>})
    IN  [at \in {e[1] : e \in entries} |-> (CHOOSE e \in entries : e[1] = at)[2]]

\* Command lines: the path alone, no argument, a surplus argument, the help
\* flag, the separator, an unknown flag, a flag with an attached value, and
\* paths that pathlib rewrites, that reach the config file another way, that
\* reach another file or a directory, or that reach nothing.
CommandLines ==
    {<<>>, <<ConfigPath>>, <<ConfigPath, ConfigPath>>,
     <<"-h">>, <<"--help">>, <<"--he">>, <<"-hh">>, <<ConfigPath, "-h">>,
     <<"-x", "-h">>, <<"--", ConfigPath>>, <<ConfigPath, "--">>, <<"--", "-h">>,
     <<"-x">>, <<"-x", ConfigPath>>, <<"-hx">>, <<"--help=x">>, <<"-1">>,
     <<ConfigPath, "b", "--", "c">>, <<"./config.yaml">>, <<"config.yaml/">>,
     <<"">>, <<"other.yaml">>, <<"po/../config.yaml">>, <<"po/config.pot">>,
     <<"po">>, <<"..">>, <<"../work/config.yaml">>, <<"/work/config.yaml">>,
     <<"config.yaml/..">>}

\* The documents of the runs under a file size limit: with and without
\* advisories, and with and without a section that stops the traversal.
DocsLimited ==
    DocsWelcome
    \cup {Config(w, d, s, Absent) :
            w \in {Absent, Welcome(Str("A"))}, d \in MixedDesktops,
            s \in {Absent, List(<<Null>>), List(<<Choice(Absent, Str("B"), Absent)>>),
                   List(<<Choice(Str("A"), Absent,
                                 List(<<Option(Absent, Absent),
                                        Option(Str("B"), Absent)>>))>>)}}

Environments ==
    {[argv |-> a, cfgFile |-> c, fs |-> fs, limit |-> Unlimited] :
        a \in CommandLines,
        c \in {ConfigFile("missing", Null), ConfigFile("malformed", Null)}
              \cup {ConfigFile("ok", doc) : doc \in DocsWelcome},
        fs \in FsStates}
    \cup
    {[argv |-> <<ConfigPath>>, cfgFile |-> ConfigFile("ok", doc), fs |-> fs,
      limit |-> Unlimited] :
        doc \in DocSet, fs \in WithStale}
    \cup
    {[argv |-> <<ConfigPath>>, cfgFile |-> ConfigFile("ok", doc), fs |-> fs,
      limit |-> Unlimited] :
        doc \in DocsMixed \cup DocsOther, fs \in Fresh}
    \cup
    {[argv |-> <<ConfigPath>>, cfgFile |-> ConfigFile("ok", doc), fs |-> fs,
      limit |-> l] :
        doc \in DocsLimited, fs \in FreshOrStale, l \in Limits}

-----------------------------------------------------------------------------
VARIABLES
    argv,       \* the command line after the program name
    limit,      \* the size the file system lets a file grow to
    files,      \* the file system
    pc,         \* the position of the process
    args,       \* args.config_path
    config,     \* the parsed document
    cfgOpen,    \* config_file is open
    potOpen,    \* pot_file is open
    potBuf,     \* strings written to pot_file that are still in its buffer
    emitted,    \* the strings pot_file.write has taken, in the order of the calls
    todo,       \* the effects of the with-body still to happen
    stdout, stderr,
    exitCode,   \* the status the process ends with (0 unless exit(n) is called)
    failed,     \* which step raised: "none", "open", "parse", "mkdir", "open_pot",
                \* "traverse", "write"
    potOpened,  \* this run has opened pot_file
    fs0,        \* the file system as this run found it
    secondRun,  \* this is the second run on the same file system
    first       \* how the first run ended

vars == <<argv, limit, files, pc, args, config, cfgOpen, potOpen, potBuf, emitted,
          todo, stdout, stderr, exitCode, failed, potOpened, fs0, secondRun, first>>

env == <<argv, limit>>
fsys == <<files>>
runs == <<fs0, secondRun, first>>

\* config before yaml.load has returned, args.config_path before parse_args has.
Unset == [t |-> "unset"]
NoPath == ""
FsNow == files

UsageLine == "usage: config_to_pot [-h] config_path"
\* What parser.print_help() writes, without its last line break.
HelpMessage ==
    UsageLine \o "\n\n"
    \o "Create a .pot file for an os-installer config\n\n"
    \o "positional arguments:\n"
    \o "  config_path\n\n"
    \o "options:\n"
    \o "  -h, --help   show this help message and exit"
Diagnostic == StdoutLine("Could not find or parse provided config")

\* A process that has just started.
Started ==
    /\ pc = "parse_args"
    /\ args = NoPath
    /\ config = Unset
    /\ cfgOpen = FALSE
    /\ potOpen = FALSE
    /\ potBuf = <<>>
    /\ emitted = <<>>
    /\ todo = <<>>
    /\ stdout = <<>>
    /\ stderr = <<>>
    /\ exitCode = 0
    /\ failed = "none"
    /\ potOpened = FALSE

Init ==
    /\ \E e \in Environments :
        /\ argv = e.argv
        /\ limit = e.limit
        /\ files = TreeOf(e.cfgFile, e.fs)
        /\ fs0 = TreeOf(e.cfgFile, e.fs)
    /\ Started
    /\ secondRun = FALSE
    /\ first = [exitCode |-> 0, potDisk |-> <<>>]

-----------------------------------------------------------------------------
(* parser.parse_args(): argparse with the options -h and --help and the    *)
(* one positional config_path.                                             *)

\* The index of the first c in s from position i on, or 0.
RECURSIVE Find(_, _, _)
Find(s, c, i) ==
    IF i > Len(s) THEN 0 ELSE IF CharAt(s, i) = c THEN i ELSE Find(s, c, i + 1)

Digits == {"0", "1", "2", "3", "4", "5", "6", "7", "8", "9"}
AllDigits(s) == \A i \in 1..Len(s) : CharAt(s, i) \in Digits
\* The pattern '^-\d+$|^-\d*\.\d+$'; `$` also matches before a last line break.
NegativeNumber(token) ==
    LET body == IF token # "" /\ CharAt(token, Len(token)) = "\n"
                THEN SubSeq(token, 1, Len(token) - 1) ELSE token
        rest == Drop(body, 1)
        dot == Find(rest, ".", 1)
    IN  /\ StartsWith(body, "-")
        /\ \/ rest # "" /\ AllDigits(rest)
           \/ /\ dot > 0
              /\ AllDigits(SubSeq(rest, 1, dot - 1))
              /\ Drop(rest, dot) # "" /\ AllDigits(Drop(rest, dot))

Positional == [kind |-> "A"]
Unknown == [kind |-> "O"]
\* The help option with the value attached to it, if any: <<>> or <<value>>.
Help(option, explicit) == [kind |-> "H", option |-> option, explicit |-> explicit]

\* _parse_optional(token) and _get_option_tuples(token): a positional, the
\* help option (in full, abbreviated, or with a value attached), or an option
\* the parser does not know.
ParseOptional(token) ==
    LET eq == Find(token, "=", 1)
        name == SubSeq(token, 1, eq - 1)
        value == <<Drop(token, eq)>>
        other == IF NegativeNumber(token) \/ IsSubstring(" ", token)
                 THEN Positional ELSE Unknown
    IN  IF token = "" \/ CharAt(token, 1) # "-" THEN Positional
        ELSE IF token \in {"-h", "--help"} THEN Help(token, <<>>)
        ELSE IF Len(token) = 1 THEN Positional
        ELSE IF eq > 0 /\ name \in {"-h", "--help"} THEN Help(name, value)
        ELSE IF StartsWith(token, "--")
             THEN IF StartsWith("--help", IF eq > 0 THEN name ELSE token)
                  THEN Help("--help", IF eq > 0 THEN value ELSE <<>>)
                  ELSE other
        ELSE IF StartsWith(token, "-h") THEN Help("-h", <<Drop(token, 2)>>)
        ELSE other

\* consume_optional on the characters attached to -h: each is read as a
\* further short option; the result is <<>> when all of them are h, and
\* otherwise the rest from the first character that is not.
RECURSIVE ShortOptions(_)
ShortOptions(explicit) ==
    IF CharAt(explicit, 1) # "h" THEN <<explicit>>
    ELSE IF Len(explicit) = 1 THEN <<>>
    ELSE ShortOptions(Drop(explicit, 1))

\* consume_optional on the help option: <<>> when the help action runs,
\* <<value>> when the value attached to the option is refused.
Ignored(option, explicit) ==
    IF explicit = <<>> THEN <<>>
    ELSE IF option = "--help" \/ explicit[1] = "" THEN explicit
    ELSE ShortOptions(explicit[1])

\* ' '.join(strings)
RECURSIVE Join(_, _)
Join(strings, sep) ==
    IF strings = <<>> THEN ""
    ELSE IF Len(strings) = 1 THEN strings[1]
    ELSE strings[1] \o sep \o Join(Tail(strings), sep)

\* The position of the first '--', or past the end.
Separator(tokens) ==
    IF \E i \in 1..Len(tokens) : tokens[i] = "--"
    THEN CHOOSE i \in 1..Len(tokens) :
            tokens[i] = "--" /\ \A j \in 1..(i - 1) : tokens[j] # "--"
    ELSE Len(tokens) + 1

\* What each token is: all that follows the first '--' is positional.
Pattern(tokens) ==
    [i \in 1..Len(tokens) |->
        IF i < Separator(tokens) THEN ParseOptional(tokens[i])
        ELSE IF i = Separator(tokens) THEN [kind |-> "-"]
        ELSE Positional]

\* parse_args(tokens): the first help option decides, as help or, with a
\* value it cannot take, as an error; otherwise the first positional is
\* config_path, a '--' next to it is dropped, and whatever else is left is
\* unrecognized.
ParseKnownArgs(tokens) ==
    LET pattern == Pattern(tokens)
        helps == {i \in 1..Len(tokens) : pattern[i].kind = "H"}
        paths == {i \in 1..Len(tokens) : pattern[i].kind = "A"}
        h == CHOOSE i \in helps : \A j \in helps : i <= j
        p == CHOOSE i \in paths : \A j \in paths : i <= j
        ignored == Ignored(pattern[h].option, pattern[h].explicit)
        extras == {i \in 1..Len(tokens) :
                      /\ i # p
                      /\ ~(pattern[i].kind = "-" /\ (i = p - 1 \/ i = p + 1))}
        left == SelectSeq([i \in 1..Len(tokens) |-> <<i, tokens[i]>>],
                          LAMBDA x : x[1] \in extras)
    IN  IF helps # {}
        THEN IF ignored = <<>>
             THEN [outcome |-> "help"]
             ELSE [outcome |-> "error",
                   message |-> "argument -h/--help: ignored explicit argument "
                               \o ReprStr(ignored[1])]
        ELSE IF paths = {}
             THEN [outcome |-> "error",
                   message |-> "the following arguments are required: config_path"]
        ELSE IF extras # {}
             THEN [outcome |-> "error",
                   message |-> "unrecognized arguments: "
                               \o Join([i \in 1..Len(left) |-> left[i][2]], " ")]
        ELSE [outcome |-> "ok", config_path |-> tokens[p]]

\* str(Path(token)): the root ('/', or '//' for exactly two slashes), then
\* the components that are neither empty nor '.', joined by '/'.
RECURSIVE Components(_)
Components(s) ==
    LET slash == Find(s, "/", 1)
        part == IF slash = 0 THEN s ELSE SubSeq(s, 1, slash - 1)
        rest == IF slash = 0 THEN <<>> ELSE Components(Drop(s, slash))
    IN  IF s = "" THEN <<>>
        ELSE IF part \in {"", "."} THEN rest
        ELSE <<part>> \o rest
RECURSIVE LeadingSlashes(_)
LeadingSlashes(s) ==
    IF StartsWith(s, "/") THEN 1 + LeadingSlashes(Drop(s, 1)) ELSE 0
PurePath(token) ==
    LET root == IF LeadingSlashes(token) = 0 THEN ""
                ELSE IF LeadingSlashes(token) = 2 THEN "//" ELSE "/"
        path == root \o Join(Components(token), "/")
    IN  IF path = "" THEN "." ELSE path

\* Path(s): whether it starts at the root, and its parts.
PathOf(s) == [absolute |-> StartsWith(s, "/"), parts |-> Components(s)]
\* path.parent: the path without its last part, whatever that part is.
Parent(path) ==
    [path EXCEPT !.parts = IF @ = <<>> THEN <<>> ELSE SubSeq(@, 1, Len(@) - 1)]
\* path / name
Child(path, name) == [path EXCEPT !.parts = Append(@, name)]
\* Lines 94 and 97: po_folder and pot_path.
PoFolder(path) == Child(Parent(path), "po")
PotPath(path) == Child(PoFolder(path), "config.pot")

-----------------------------------------------------------------------------
(* The file system as open() and mkdir() see it.                           *)

Exists(tree, at) == at \in DOMAIN tree
IsDir(tree, at) == Exists(tree, at) /\ tree[at].kind = "dir"
IsFile(tree, at) == Exists(tree, at) /\ tree[at].kind = "file"
KindAt(tree, at) == IF Exists(tree, at) THEN tree[at].kind ELSE "absent"
\* The tree with node at the place at.
With(tree, at, node) ==
    [x \in DOMAIN tree \cup {at} |-> IF x = at THEN node ELSE tree[x]]

\* The place above: the root is above itself.
Up(at) == IF at = <<>> THEN <<>> ELSE SubSeq(at, 1, Len(at) - 1)
\* Path resolution from the place at: every part is looked up in a directory
\* that exists, '..' leads to the place above; the place reached need not exist.
RECURSIVE Walk(_, _, _)
Walk(tree, at, parts) ==
    IF parts = <<>> THEN [ok |-> TRUE, at |-> at]
    ELSE IF ~IsDir(tree, at) THEN [ok |-> FALSE, at |-> at]
    ELSE Walk(tree, IF Head(parts) = ".." THEN Up(at) ELSE Append(at, Head(parts)),
              Tail(parts))
Resolve(tree, path) == Walk(tree, IF path.absolute THEN <<>> ELSE Cwd, path.parts)

\* yaml.load on what a file holds: an empty text is None, the text 'stale' is a
\* str, and the text of a template, which starts with the header, is no YAML
\* (after the plain scalar of the msgid and msgstr lines, "Project-Id-Version:
\* is a mapping key where none is allowed).
Load(content) ==
    IF content.form = "yaml" THEN [ok |-> content.st = "ok", doc |-> content.doc]
    ELSE CASE content.strings = <<>> -> [ok |-> TRUE, doc |-> Null]
           [] content.strings = Stale -> [ok |-> TRUE, doc |-> Str("stale")]
           [] content.strings # <<>> /\ content.strings[1] = PotHeader ->
                 [ok |-> FALSE, doc |-> Null]

\* Where this run reads and writes, in the file system tree.
ConfigAt(tree) == Resolve(tree, PathOf(args))
PoFolderAt(tree) == Resolve(tree, PoFolder(PathOf(args)))
PotAt(tree) == Resolve(tree, PotPath(PathOf(args)))
\* The strings in the file at pot_path.
PotDiskOf(tree) ==
    LET pot == PotAt(tree) IN
    IF pot.ok /\ IsFile(tree, pot.at) THEN tree[pot.at].content.strings ELSE <<>>
potDisk == PotDiskOf(files)
potKind == IF PotAt(files).ok THEN KindAt(files, PotAt(files).at) ELSE "absent"
poDir == IF PoFolderAt(files).ok THEN KindAt(files, PoFolderAt(files).at) ELSE "absent"

\* bool(args.config_path): pathlib.Path defines neither __bool__ nor __len__.
Truthy(path) == TRUE

\* Line 14: args = parser.parse_args().  Help goes to standard output and
\* ends the process with status 0; an error goes to standard error, after the
\* usage line, and ends it with status 2.
ParseArgs ==
    /\ pc = "parse_args"
    /\ LET parsed == ParseKnownArgs(argv) IN
       CASE parsed.outcome = "ok" ->
                /\ args' = PurePath(parsed.config_path)
                /\ pc' = "check_args"
                /\ UNCHANGED <<stdout, stderr, exitCode>>
         [] parsed.outcome = "help" ->
                /\ stdout' = Append(stdout, StdoutLine(HelpMessage))
                /\ exitCode' = 0
                /\ pc' = "exited"
                /\ UNCHANGED <<args, stderr>>
         [] parsed.outcome = "error" ->
                /\ stderr' = <<UsageLine, "config_to_pot: error: " \o parsed.message>>
                /\ exitCode' = 2
                /\ pc' = "exited"
                /\ UNCHANGED <<args, stdout>>
    /\ UNCHANGED <<env, fsys, runs, config, cfgOpen, potOpen, potBuf, emitted, todo, failed,
                   potOpened>>

\* Lines 16-18.
CheckArgs ==
    /\ pc = "check_args"
    /\ IF ~Truthy(args)
       THEN /\ stdout' = Append(stdout, StdoutLine(UsageLine))
            /\ exitCode' = 1
            /\ pc' = "exited"
       ELSE /\ pc' = "open_config"
            /\ UNCHANGED <<stdout, exitCode>>
    /\ UNCHANGED <<env, fsys, runs, args, config, cfgOpen, potOpen, potBuf, emitted, todo,
                   stderr, failed, potOpened>>

\* Line 91: open(args.config_path, 'r'): the path has to lead to a regular file.
OpenConfig ==
    /\ pc = "open_config"
    /\ IF ConfigAt(files).ok /\ IsFile(files, ConfigAt(files).at)
       THEN /\ cfgOpen' = TRUE
            /\ pc' = "load"
            /\ UNCHANGED failed
       ELSE /\ failed' = "open"
            /\ pc' = "except"
            /\ UNCHANGED cfgOpen
    /\ UNCHANGED <<env, fsys, runs, args, config, potOpen, potBuf, emitted, todo, stdout,
                   stderr, exitCode, potOpened>>

\* A variant of LoadConfig that leaves config_file open when yaml.load returns.
LoadConfigLeavesOpen ==
    /\ pc = "load"
    /\ LET loaded == Load(files[ConfigAt(files).at].content) IN
       IF loaded.ok
       THEN /\ config' = loaded.doc
            /\ pc' = "mkdir"
            /\ UNCHANGED <<failed, cfgOpen>>
       ELSE /\ failed' = "parse"
            /\ pc' = "except"
            /\ cfgOpen' = FALSE
            /\ UNCHANGED config
    /\ UNCHANGED <<env, fsys, runs, args, potOpen, potBuf, emitted, todo, stdout, stderr,
                   exitCode, potOpened>>

\* Line 92 and the end of the with block: yaml.load, then config_file is closed,
\* whether yaml.load returned or raised.
LoadConfig ==
    /\ pc = "load"
    /\ cfgOpen' = FALSE
    /\ LET loaded == Load(files[ConfigAt(files).at].content) IN
       IF loaded.ok
       THEN /\ config' = loaded.doc
            /\ pc' = "mkdir"
            /\ UNCHANGED failed
       ELSE /\ failed' = "parse"
            /\ pc' = "except"
            /\ UNCHANGED config
    /\ UNCHANGED <<env, fsys, runs, args, potOpen, potBuf, emitted, todo, stdout, stderr,
                   exitCode, potOpened>>

\* Lines 94-95: po_folder.mkdir(exist_ok=True): a directory that is there is
\* left as it is, a regular file in its place is an error.
MakePoFolder ==
    /\ pc = "mkdir"
    /\ IF ~PoFolderAt(files).ok \/ IsFile(files, PoFolderAt(files).at)
       THEN /\ failed' = "mkdir"
            /\ pc' = "except"
            /\ UNCHANGED files
       ELSE /\ files' = With(files, PoFolderAt(files).at, Dir)
            /\ pc' = "open_pot"
            /\ UNCHANGED failed
    /\ UNCHANGED <<env, runs, args, config, cfgOpen, potOpen, potBuf, emitted, todo, stdout,
                   stderr, exitCode, potOpened>>

\* What open(pot_path, 'a') leaves of the file's earlier content.
Kept(content) == content

\* What open(pot_path, 'w') leaves of the file's earlier content.
Truncated(content) == <<>>

\* Lines 97-98: open(pot_path, 'w'): the file is created or truncated; a
\* directory in its place is an error.
OpenPot ==
    /\ pc = "open_pot"
    /\ IF ~PotAt(files).ok \/ IsDir(files, PotAt(files).at)
       THEN /\ failed' = "open_pot"
            /\ pc' = "except"
            /\ UNCHANGED <<files, potOpen, potOpened, todo>>
       ELSE /\ files' = With(files, PotAt(files).at, File(Text(Truncated(potDisk))))
            /\ potOpen' = TRUE
            /\ potOpened' = TRUE
            /\ todo' = WithBody(config)
            /\ pc' = "with_pot"
            /\ UNCHANGED failed
    /\ UNCHANGED <<env, runs, args, config, cfgOpen, potBuf, emitted, stdout, stderr,
                   exitCode>>

\* The file after the buffer is flushed.
Flushed(disk, buf) == disk \o buf

\* The number of characters in a sequence of strings.
RECURSIVE Size(_)
Size(strings) == IF strings = <<>> THEN 0 ELSE Len(Head(strings)) + Size(Tail(strings))

\* The first n characters of a sequence of strings: the strings that fit whole
\* and, if the cut falls inside a string, the part of it before the cut.
RECURSIVE Cut(_, _)
Cut(strings, n) ==
    IF strings = <<>> \/ n = 0 THEN <<>>
    ELSE IF Len(Head(strings)) <= n
         THEN <<Head(strings)>> \o Cut(Tail(strings), n - Len(Head(strings)))
         ELSE <<SubSeq(Head(strings), 1, n)>>

\* The file system takes the whole of a content, or only what the limit allows:
\* write(2) stores the characters up to the limit and fails for the rest.
Fits(content) == IF limit.limited THEN Size(content) <= limit.size ELSE TRUE
Accepted(content) == IF Fits(content) THEN content ELSE Cut(content, limit.size)

\* A sequence of strings without its first n characters: what the binary layer
\* keeps of a text of which write(2) stored the first n characters only.
RECURSIVE Rest(_, _)
Rest(strings, n) ==
    IF strings = <<>> \/ n = 0 THEN strings
    ELSE IF Len(Head(strings)) <= n
         THEN Rest(Tail(strings), n - Len(Head(strings)))
         ELSE <<SubSeq(Head(strings), n + 1, Len(Head(strings)))>> \o Tail(strings)

\* pot_file.write(s): the string enters the buffer of the text layer, behind
\* the strings the text layer and the binary layer below it still hold.  To
\* make room either layer may pass on what it holds, oldest first, so that any
\* number of the buffered strings, and with all of them the new one, may reach
\* the file; how much a layer holds depends on the block size of the device.
\* When the file system stores only a part of what is passed on, the file keeps
\* that part, and either write raises OSError, and the exception leaves the
\* with block, which closes pot_file (the flush of the close is refused as
\* well); or, write(2) having stored some of it (a short count), the binary
\* layer keeps the rest in its buffer, if it has the room, and write returns:
\* the script goes on with a file that ends inside a string, and a later flush,
\* at the latest that of the close, raises.
WriteStep ==
    /\ pc = "with_pot"
    /\ todo # <<>>
    /\ Head(todo).op = "write"
    /\ LET pot == PotAt(files).at
           disk == potDisk
           buf == Append(potBuf, Head(todo).s)
       IN  \E flushed \in 0..(Len(potBuf) + 1) :
            LET content == Flushed(disk, SubSeq(buf, 1, flushed)) IN
            /\ files' = With(files, pot, File(Text(Accepted(content))))
            /\ \/ /\ Fits(content)
                  /\ potBuf' = SubSeq(buf, flushed + 1, Len(buf))
                  /\ emitted' = Append(emitted, Head(todo).s)
                  /\ todo' = Tail(todo)
                  /\ UNCHANGED <<pc, potOpen, failed>>
               \/ /\ ~Fits(content)
                  /\ potBuf' = <<>>
                  /\ potOpen' = FALSE
                  /\ failed' = "write"
                  /\ pc' = "except"
                  /\ todo' = <<>>
                  /\ UNCHANGED emitted
               \/ /\ ~Fits(content)
                  /\ Size(disk) < limit.size
                  /\ potBuf' = Rest(Flushed(disk, buf), limit.size)
                  /\ emitted' = Append(emitted, Head(todo).s)
                  /\ todo' = Tail(todo)
                  /\ UNCHANGED <<pc, potOpen, failed>>
    /\ UNCHANGED <<env, runs, args, config, cfgOpen, stdout, stderr, exitCode,
                   potOpened>>

\* print(...) of an advisory (lines 30, 39, 47).
PrintStep ==
    /\ pc = "with_pot"
    /\ todo # <<>>
    /\ Head(todo).op = "print"
    /\ stdout' = Append(stdout, Head(todo))
    /\ todo' = Tail(todo)
    /\ UNCHANGED <<env, fsys, runs, pc, args, config, cfgOpen, potOpen, potBuf, emitted,
                   stderr, exitCode, failed, potOpened>>

\* A variant of RaiseStep in which the exception does not close pot_file.
RaiseStepLeavesOpen ==
    /\ pc = "with_pot"
    /\ todo # <<>>
    /\ Head(todo).op = "raise"
    /\ failed' = "traverse"
    /\ pc' = "except"
    /\ todo' = <<>>
    /\ UNCHANGED <<env, fsys, runs, args, config, cfgOpen, potOpen, potBuf, emitted, stdout,
                   stderr, exitCode, potOpened>>

\* An exception leaves the with block: pot_file is closed on the way out,
\* and what it still holds is flushed.  When the file system refuses a part of
\* it, close raises OSError in the place of the exception of the traversal.
RaiseStep ==
    /\ pc = "with_pot"
    /\ todo # <<>>
    /\ Head(todo).op = "raise"
    /\ LET content == Flushed(potDisk, potBuf) IN
        /\ files' = With(files, PotAt(files).at, File(Text(Accepted(content))))
        /\ failed' = IF Fits(content) THEN "traverse" ELSE "write"
    /\ potBuf' = <<>>
    /\ potOpen' = FALSE
    /\ pc' = "except"
    /\ todo' = <<>>
    /\ UNCHANGED <<env, runs, args, config, cfgOpen, emitted, stdout, stderr,
                   exitCode, potOpened>>

\* The with block ends: pot_file is closed, what it still holds is flushed, and
\* the script ends.  When the file system refuses a part of it, close raises
\* OSError.
ClosePot ==
    /\ pc = "with_pot"
    /\ todo = <<>>
    /\ LET content == Flushed(potDisk, potBuf) IN
        /\ files' = With(files, PotAt(files).at, File(Text(Accepted(content))))
        /\ IF Fits(content)
           THEN pc' = "exited" /\ UNCHANGED failed
           ELSE pc' = "except" /\ failed' = "write"
    /\ potBuf' = <<>>
    /\ potOpen' = FALSE
    /\ UNCHANGED <<env, runs, args, config, cfgOpen, emitted, todo, stdout, stderr,
                   exitCode, potOpened>>

\* A variant of Except that handles only the failures of opening and parsing:
\* a later exception ends the process with a traceback and status 1.
ExceptOpenOrParse ==
    /\ pc = "except"
    /\ IF failed \in {"open", "parse"}
       THEN stdout' = Append(stdout, Diagnostic) /\ UNCHANGED stderr
       ELSE stderr' = Append(stderr, "Traceback (most recent call last):")
            /\ UNCHANGED stdout
    /\ exitCode' = 1
    /\ pc' = "exited"
    /\ UNCHANGED <<env, fsys, runs, args, config, cfgOpen, potOpen, potBuf, emitted, todo,
                   failed, potOpened>>

\* Lines 101-103.
Except ==
    /\ pc = "except"
    /\ stdout' = Append(stdout, Diagnostic)
    /\ exitCode' = 1
    /\ pc' = "exited"
    /\ UNCHANGED <<env, fsys, runs, args, config, cfgOpen, potOpen, potBuf, emitted, todo,
                   stderr, failed, potOpened>>

\* The tool is run again, with the same command line, on what the first run left.
Rerun ==
    /\ pc = "exited"
    /\ ~secondRun
    /\ secondRun' = TRUE
    /\ first' = [exitCode |-> exitCode, potDisk |-> potDisk]
    /\ fs0' = FsNow
    /\ pc' = "parse_args"
    /\ args' = NoPath
    /\ config' = Unset
    /\ cfgOpen' = FALSE
    /\ potOpen' = FALSE
    /\ potBuf' = <<>>
    /\ emitted' = <<>>
    /\ todo' = <<>>
    /\ stdout' = <<>>
    /\ stderr' = <<>>
    /\ exitCode' = 0
    /\ failed' = "none"
    /\ potOpened' = FALSE
    /\ UNCHANGED <<env, fsys>>

Next ==
    \/ ParseArgs
    \/ CheckArgs
    \/ OpenConfig
    \/ LoadConfig
    \/ MakePoFolder
    \/ OpenPot
    \/ WriteStep
    \/ PrintStep
    \/ RaiseStep
    \/ ClosePot
    \/ Except
    \/ Rerun

Spec == Init /\ [][Next]_vars

-----------------------------------------------------------------------------
(* Vocabulary of the properties.                                           *)

\* The strings a sequence of effects writes, and the lines it prints.
RECURSIVE Writes(_)
Writes(effects) ==
    IF effects = <<>> THEN <<>>
    ELSE (IF Head(effects).op = "write" THEN <<Head(effects).s>> ELSE <<>>)
         \o Writes(Tail(effects))
Prints(effects) == SelectSeq(effects, LAMBDA e : e.op = "print")
Advisories(lines, msg) == SelectSeq(lines, LAMBDA e : e.msg = msg)

\* The concatenation of a sequence of sequences.
RECURSIVE Concat(_)
Concat(seqs) == IF seqs = <<>> THEN <<>> ELSE Head(seqs) \o Concat(Tail(seqs))
Map(Op(_), seq) == [i \in 1..Len(seq) |-> Op(seq[i])]
Count(seq, x) == Cardinality({i \in 1..Len(seq) : seq[i] = x})
IsPrefix(p, q) == Len(p) <= Len(q) /\ p = SubSeq(q, 1, Len(p))

\* A template entry as section 6 of the specification prints it.
EntryOf(value) == "msgid \"" \o Format(value) \o "\"\nmsgstr \"\"\n\n"

\* The translatable values of a document in the order the specification gives:
\* a key that is absent contributes nothing, and neither does a node that is
\* not of the kind the schema names.
ValueOf(field) == IF field = Absent THEN <<>> ELSE <<field>>
ItemsOf(value) == IF value.t = "seq" THEN value.items ELSE <<>>
OptionValuesOf(option) == ValueOf(Get(option, "name"))
DesktopValuesOf(desktop) ==
    ValueOf(Get(desktop, "name")) \o ValueOf(Get(desktop, "description"))
OptionValuesOfAll(choice) == Concat(Map(OptionValuesOf, ItemsOf(Get(choice, "options"))))
ChoiceValuesOf(choice) ==
    ValueOf(Get(choice, "name")) \o ValueOf(Get(choice, "description"))
    \o OptionValuesOfAll(choice)
DocValues(doc) ==
    ValueOf(Get(Get(doc, "welcome_page"), "text"))
    \o Concat(Map(DesktopValuesOf, ItemsOf(Get(doc, "desktop"))))
    \o Concat(Map(ChoiceValuesOf, ItemsOf(Get(doc, "additional_software"))))
    \o Concat(Map(ChoiceValuesOf, ItemsOf(Get(doc, "additional_features"))))
DocEntries(doc) == Map(EntryOf, DocValues(doc))

IsMap(value) == value.t = "map"
AllMaps(items) == \A i \in 1..Len(items) : IsMap(items[i])
\* A sequence of mappings.
MapList(value) == value.t = "seq" /\ AllMaps(value.items)
\* A key that is absent or holds a sequence of mappings.
NoneOrMaps(value) == value = Absent \/ MapList(value)
\* A choice sequence whose options are sequences of mappings too.
ChoiceList(value) ==
    /\ MapList(value)
    /\ \A i \in 1..Len(value.items) : NoneOrMaps(Get(value.items[i], "options"))
\* A document of the schema: mappings and sequences where the schema names them.
WellTyped(doc) ==
    /\ IsMap(doc)
    /\ Get(doc, "welcome_page") = Absent \/ IsMap(Get(doc, "welcome_page"))
    /\ NoneOrMaps(Get(doc, "desktop"))
    /\ Get(doc, "additional_software") = Absent \/ ChoiceList(Get(doc, "additional_software"))
    /\ Get(doc, "additional_features") = Absent \/ ChoiceList(Get(doc, "additional_features"))

Loaded == config # Unset
Exited == pc = "exited"
Succeeded == pc = "exited" /\ potOpened /\ failed = "none"
\* The file system has refused a part of what pot_file passed to it: a write
\* or the close has raised OSError, or the file ends inside a string, the rest
\* of which is in the buffer.
Refused == potOpened /\ (failed = "write" \/ potDisk \o potBuf # emitted)
\* What a run writes for a document.
OutputOf(doc) == Writes(WithBody(doc))
\* The entries among the strings pot_file.write has taken.
EntriesEmitted == IF emitted = <<>> THEN <<>> ELSE Tail(emitted)

-----------------------------------------------------------------------------
(* The properties.                                                         *)

\* C1: when the traversal of a document completes, config.pot holds the header
\* and then exactly one entry per translatable value, in the order welcome text,
\* desktops (name, description), additional_software choices (name, description,
\* option names) and additional_features choices likewise; nothing is dropped,
\* deduplicated or reordered.
C1_EntryOrder ==
    Succeeded => potDisk = <<PotHeader>> \o DocEntries(config)

\* A completed run on a document with a welcome text, two desktops, two software
\* choices, a feature choice with two options, and a repeated string.
C1_Witness ==
    /\ Succeeded
    /\ exitCode = 0
    /\ WellTyped(config)
    /\ Get(config, "welcome_page") # Absent
    /\ Len(ItemsOf(Get(config, "desktop"))) >= 2
    /\ Len(ItemsOf(Get(config, "additional_software"))) >= 2
    /\ \E i \in 1..Len(ItemsOf(Get(config, "additional_features"))) :
          Len(OptionValuesOfAll(Get(config, "additional_features").items[i])) >= 2
    /\ Len(potDisk) >= 10
    /\ \E i, j \in 2..Len(potDisk) : i # j /\ potDisk[i] = potDisk[j]

\* C2 as the specification states it: once a run has opened the output file,
\* the header is the first thing written and is written once: in every state
\* the file, and the file with what is still buffered, are each empty or start
\* with the header, and nothing but the header write precedes the entries.
C2_HeaderFirst ==
    potOpened =>
        LET written == potDisk \o potBuf IN
        /\ potDisk = <<>> \/ potDisk[1] = PotHeader
        /\ written = <<>> \/ written[1] = PotHeader
        /\ Count(written, PotHeader) <= 1
        /\ written = <<>> => pc = "with_pot" /\ todo # <<>> /\ todo[1] = Write(PotHeader)
        /\ pc # "with_pot" => Count(potDisk, PotHeader) = 1

\* C2, amended: once a run has opened the output file, the header is the first
\* string pot_file.write takes and it takes it once, so that no entry is written
\* while the header has not been; as long as the file system has refused
\* nothing, the file, and the file with what is still buffered, are each empty
\* or start with the header; when the file system has refused a part of a
\* write, the file holds the leading part of the header and the entries that
\* the limit allows, which below the size of the header is a cut header or
\* nothing; the write that was cut short has raised, or it has returned and the
\* run goes on with output pending that the close will not get into the file;
\* either way the run ends with the diagnostic and exit code 1.
C2_HeaderFirstUnlessRefused ==
    potOpened =>
        LET written == potDisk \o potBuf IN
        /\ emitted = <<>> \/ emitted[1] = PotHeader
        /\ Count(emitted, PotHeader) <= 1
        /\ Fits(potDisk)
        /\ ~Refused =>
              /\ potDisk = <<>> \/ potDisk[1] = PotHeader
              /\ written = <<>> \/ written[1] = PotHeader
              /\ Count(written, PotHeader) <= 1
              /\ written = <<>> =>
                    pc = "with_pot" /\ todo # <<>> /\ todo[1] = Write(PotHeader)
              /\ pc # "with_pot" => Count(potDisk, PotHeader) = 1
        /\ Refused =>
              /\ limit.limited
              /\ Size(potDisk) = limit.size
              /\ potDisk = Cut(<<PotHeader>> \o DocEntries(config), limit.size)
              /\ limit.size >= HeaderSize => potDisk[1] = PotHeader
              /\ limit.size < HeaderSize =>
                    potDisk = Cut(<<PotHeader>>, limit.size)
              /\ failed \in {"none", "write"}
              /\ failed = "write" => pc \in {"except", "exited"} /\ ~potOpen
              /\ failed = "none" =>
                    /\ pc = "with_pot" /\ potOpen
                    /\ potBuf # <<>> /\ ~Fits(written)
              /\ Exited => exitCode = 1 /\ Count(stdout, Diagnostic) = 1

\* Entries are on disk and in the buffer behind the header, mid-traversal.
C2_Witness ==
    /\ potOpened
    /\ pc = "with_pot"
    /\ Len(potDisk) >= 2
    /\ potDisk[1] = PotHeader
    /\ potBuf # <<>>
    /\ todo # <<>>

\* The failing half of C3: a run in which any step of the open / parse / mkdir /
\* open-output / traverse / write sequence raised ends with the one diagnostic
\* printed once, as the last line, and exit code 1, whatever the step.
FailsUniformly ==
    failed # "none" =>
        /\ exitCode = 1
        /\ Count(stdout, Diagnostic) = 1
        /\ stdout[Len(stdout)] = Diagnostic
        /\ stderr = <<>>
\* The run went through the whole sequence, and no step of it failed.
Completed ==
    /\ failed = "none"
    /\ Count(stdout, Diagnostic) = 0
    /\ Loaded /\ ~cfgOpen
    /\ poDir = "dir" /\ potKind = "file"
    /\ potOpened /\ ~potOpen /\ todo = <<>> /\ potBuf = <<>>

\* C3 as the specification states it: every failure in the sequence ends the
\* run with the diagnostic and exit code 1, and a run, any run, ends with exit
\* code 0 only if the whole sequence completed without failure.
C3_ExitZeroOnlyIfCompleted ==
    Exited => FailsUniformly /\ (exitCode = 0 => Completed)

\* C3, amended: every failure in the open / parse / mkdir / open-output /
\* traverse / write sequence ends the run with the diagnostic printed once, as
\* the last line, and exit code 1, whatever the step; a run that ends with exit
\* code 0 either has completed the whole sequence without failure or had the
\* help option (-h, --help) on its command line, with or without a config path,
\* printed the help text, and never entered the sequence nor touched the file
\* system.
C3_UniformFailure ==
    Exited =>
        /\ FailsUniformly
        /\ exitCode = 0 =>
              \/ Completed
              \/ /\ ParseKnownArgs(argv).outcome = "help"
                 /\ stdout = <<StdoutLine(HelpMessage)>>
                 /\ failed = "none" /\ args = NoPath /\ ~Loaded /\ ~potOpened
                 /\ FsNow = fs0

\* A write that the file system refused after an advisory was printed and an
\* entry was written.
C3_Witness ==
    /\ Exited
    /\ Refused
    /\ exitCode = 1
    /\ Len(stdout) >= 2
    /\ Len(emitted) >= 2
    /\ todo = <<>>

\* C4: a run without the config path argument prints the usage text, ends with
\* exit code 1 and leaves the file system as it found it.
C4_MissingArgument ==
    (Exited /\ argv = <<>>) =>
        /\ exitCode = 1
        /\ \/ Count(stdout, StdoutLine(UsageLine)) = 1
           \/ Count(stderr, UsageLine) = 1
        /\ FsNow = fs0

\* C5: while config_file is open nothing has been created or written; whatever
\* the run changes in the file system, it changes after the document was parsed
\* in full and config_file was closed; a run that fails to open or to parse the
\* input leaves the po directory and config.pot as it found them.
C5_ReadBeforeWrite ==
    /\ cfgOpen => FsNow = fs0 /\ ~potOpen /\ ~potOpened /\ ~Loaded
    /\ (FsNow # fs0 \/ potOpen \/ potOpened \/ potBuf # <<>>) =>
          Loaded /\ config = Load(files[ConfigAt(files).at].content).doc /\ ~cfgOpen
    /\ failed \in {"open", "parse"} => FsNow = fs0 /\ ~potOpened

\* A parse failure with a config.pot of an earlier writer in place.
C5_Witness ==
    /\ Exited
    /\ failed = "parse"
    /\ PotDiskOf(fs0) = Stale
    /\ potDisk = Stale
    /\ ~cfgOpen

\* The entries and the advisories of a desktop sequence of mappings.
DesktopAdvisories(items) ==
    Map(LAMBDA d : Stdout("Invalid desktop", d),
        SelectSeq(items, LAMBDA d : Get(d, "name") = Absent))
NameCount(items) == Cardinality({i \in 1..Len(items) : Get(items[i], "name") # Absent})
DescriptionCount(items) ==
    Cardinality({i \in 1..Len(items) : Get(items[i], "description") # Absent})
OnlyDesktop(doc) == Keys(doc) = <<"desktop">>

\* C6: for a desktop sequence of mappings, handle_desktop emits one entry per
\* name and one per description that is present, in sequence order with an
\* entry's name before its description, prints one 'Invalid desktop' advisory
\* per entry without a name, and does not stop; a run on a document that holds
\* only such a desktop sequence, in which the file system refuses no write, ends
\* with exactly these entries and advisories.
C6_DesktopEntries ==
    (Loaded /\ IsMap(config) /\ MapList(Get(config, "desktop"))) =>
        LET items == Get(config, "desktop").items
            effects == HandleDesktop(Get(config, "desktop"))
        IN  /\ ~Raised(effects)
            /\ Writes(effects) = Map(EntryOf, Concat(Map(DesktopValuesOf, items)))
            /\ Len(Writes(effects)) = NameCount(items) + DescriptionCount(items)
            /\ Prints(effects) = DesktopAdvisories(items)
            /\ (Exited /\ potOpened /\ ~Refused /\ OnlyDesktop(config)) =>
                  /\ exitCode = 0
                  /\ Len(potDisk) = 1 + NameCount(items) + DescriptionCount(items)
                  /\ Tail(potDisk) = Writes(effects)
                  /\ stdout = DesktopAdvisories(items)

\* A completed run whose first desktop has a description and no name and whose
\* second desktop has both.
C6_Witness ==
    /\ Exited
    /\ exitCode = 0
    /\ potOpened
    /\ IsMap(config)
    /\ MapList(Get(config, "desktop"))
    /\ OnlyDesktop(config)
    /\ Len(Get(config, "desktop").items) = 2
    /\ Get(Get(config, "desktop").items[1], "name") = Absent
    /\ Get(Get(config, "desktop").items[1], "description") # Absent
    /\ Get(Get(config, "desktop").items[2], "name") # Absent
    /\ Get(Get(config, "desktop").items[2], "description") # Absent
    /\ Len(potDisk) = 4
    /\ Len(stdout) = 1

\* The choices of a document: those of additional_software, then those of
\* additional_features.
ChoicesOf(doc) ==
    ItemsOf(Get(doc, "additional_software")) \o ItemsOf(Get(doc, "additional_features"))
Nameless(items) == SelectSeq(items, LAMBDA c : Get(c, "name") = Absent)
\* The choice with a name put in front of its other keys.
Named(choice) == Dict(<<<<"name", Str("A")>>>> \o choice.pairs)
ChoiceAdvisories(items) == Map(LAMBDA c : Stdout("Invalid choice", c), Nameless(items))

\* C7: a choice without a name gets the 'Invalid choice' advisory and no name
\* entry, and after it exactly the effects of the same choice with a name: its
\* description and its options; the choices that follow are handled; and a
\* run on a well-typed document, in which nothing else fails (the file system
\* refuses no write), ends with exit code 0 with one advisory per nameless
\* choice.
C7_NamelessChoice ==
    (Loaded /\ WellTyped(config)) =>
        /\ \A section \in {Get(config, "additional_software"),
                            Get(config, "additional_features")} :
              section # Absent =>
                  /\ HandleChoices(section) = Concat(Map(HandleChoice, section.items))
                  /\ \A i \in 1..Len(section.items) :
                        LET choice == section.items[i]
                            named == Named(choice)
                            effects == HandleChoice(choice)
                        IN  Get(choice, "name") = Absent =>
                              /\ Head(effects) = Stdout("Invalid choice", choice)
                              /\ Tail(effects) = Tail(HandleChoice(named))
                              /\ Writes(effects) =
                                    Map(EntryOf, ValueOf(Get(choice, "description"))
                                                 \o OptionValuesOfAll(choice))
        /\ (Exited /\ potOpened /\ ~Refused) =>
              /\ exitCode = 0
              /\ Advisories(stdout, "Invalid choice") = ChoiceAdvisories(ChoicesOf(config))
              /\ Count(stdout, Diagnostic) = 0

\* A completed run whose first software choice has no name but a description
\* and a named option, and is followed by a second choice.
C7_Witness ==
    /\ Exited
    /\ exitCode = 0
    /\ potOpened
    /\ WellTyped(config)
    /\ Len(ItemsOf(Get(config, "additional_software"))) = 2
    /\ Get(Get(config, "additional_software").items[1], "name") = Absent
    /\ Get(Get(config, "additional_software").items[1], "description") # Absent
    /\ Len(OptionValuesOfAll(Get(config, "additional_software").items[1])) >= 1
    /\ Get(Get(config, "additional_software").items[2], "name") # Absent
    /\ Len(potDisk) >= 4
    /\ Len(Advisories(stdout, "Invalid choice")) = 1

\* C8: after a successful run config.pot holds what the tool writes for the
\* document, whatever the file held before, and a second run on the unchanged
\* input leaves the content the first run left.
C8_Idempotent ==
    (Succeeded /\ exitCode = 0) =>
        /\ potDisk = OutputOf(config)
        /\ secondRun => first.exitCode = 0 /\ potDisk = first.potDisk

\* The second run has completed over the output of the first.
C8_Witness ==
    /\ Succeeded
    /\ exitCode = 0
    /\ secondRun
    /\ PotDiskOf(fs0) = potDisk
    /\ Len(potDisk) >= 3

\* A step failed after pot_file was opened: the traversal raised, or the file
\* system refused a write.
FailedAfterOpen == potOpened /\ failed # "none"

\* C9 as the specification states it: when a step fails after the output file
\* was opened, in the write of the header or in the traversal, the run ends
\* with exit code 1 and pot_file is closed before the handler runs; config.pot
\* exists and holds the header and then exactly the entries emitted before the
\* failure, a prefix of the document's entries, and nothing of its earlier
\* content.
C9_PartialOutput ==
    FailedAfterOpen =>
        /\ failed \in {"traverse", "write"}
        /\ pc \in {"except", "exited"}
        /\ Exited => exitCode = 1
        /\ ~potOpen /\ potBuf = <<>>
        /\ potKind = "file"
        /\ potDisk = <<PotHeader>> \o EntriesEmitted
        /\ IsPrefix(Tail(potDisk), DocEntries(config))
        /\ PotDiskOf(fs0) = Stale => Count(potDisk, Stale[1]) = 0

\* C9, amended: when a step fails after the output file was opened, the run
\* ends with exit code 1 and pot_file is closed before the handler runs;
\* config.pot exists and holds nothing of its earlier content.  When the
\* traversal raised and the file system took every write, the file holds the
\* header and then exactly the entries emitted before the failure, a prefix of
\* the document's entries.  When the file system refused a part of a write, in
\* the traversal (at the write that was cut short, or at a later one when that
\* write returned) or in the flush that closes the file, the file holds only
\* the leading characters of that text which the limit allows: nothing, a cut
\* header, or the header with entries of which the last may be cut.
C9_PartialOrCutOutput ==
    FailedAfterOpen =>
        /\ failed \in {"traverse", "write"}
        /\ pc \in {"except", "exited"}
        /\ Exited => exitCode = 1
        /\ ~potOpen /\ potBuf = <<>>
        /\ potKind = "file"
        /\ PotDiskOf(fs0) = Stale => Count(potDisk, Stale[1]) = 0
        /\ IsPrefix(EntriesEmitted, DocEntries(config))
        /\ failed = "traverse" =>
              /\ Fits(potDisk)
              /\ potDisk = <<PotHeader>> \o EntriesEmitted
              /\ Tail(potDisk) = Writes(HandleConfig(config))
              /\ IsPrefix(Tail(potDisk), DocEntries(config))
        /\ Refused =>
              /\ limit.limited
              /\ Size(potDisk) = limit.size
              /\ potDisk = Cut(<<PotHeader>> \o DocEntries(config), limit.size)
              /\ Size(<<PotHeader>> \o EntriesEmitted) > limit.size
                    => potDisk = Cut(<<PotHeader>> \o EntriesEmitted, limit.size)

\* A traversal that failed after two entries, over an earlier config.pot.
C9_Witness ==
    /\ Exited
    /\ failed = "traverse"
    /\ exitCode = 1
    /\ PotDiskOf(fs0) = Stale
    /\ Len(potDisk) = 3
    /\ Len(DocEntries(config)) > 2

\* The options of the choices of a document.
OptionsOf(doc) == Concat(Map(LAMBDA c : ItemsOf(Get(c, "options")), ChoicesOf(doc)))
Unnamed(option) == Get(option, "name") = Absent /\ Get(option, "option") = Absent
OptionAdvisories(items) ==
    Map(LAMBDA o : Stdout("Invalid option", o), SelectSeq(items, Unnamed))

\* C10: for an option the choice handler emits an entry exactly when the option
\* has a name and prints 'Invalid option' exactly when it has neither a name nor
\* an option key; after any option it goes on with the next; a run in which the
\* file system refuses no write has printed one 'Invalid option' advisory per
\* option without both keys.
C10_Options ==
    (Loaded /\ WellTyped(config)) =>
        /\ \A i \in 1..Len(ChoicesOf(config)) :
              LET choice == ChoicesOf(config)[i]
                  options == Get(choice, "options")
              IN
              options # Absent =>
                  /\ HandleOptions(choice) = Concat(Map(HandleOption, options.items))
                  /\ \A j \in 1..Len(options.items) :
                        LET option == options.items[j]
                            effects == HandleOption(option)
                        IN  /\ ~Raised(effects)
                            /\ Writes(effects) = Map(EntryOf, ValueOf(Get(option, "name")))
                            /\ Prints(effects) =
                                  IF Unnamed(option)
                                  THEN <<Stdout("Invalid option", option)>>
                                  ELSE <<>>
        /\ (Exited /\ potOpened /\ ~Refused) =>
              Advisories(stdout, "Invalid option") = OptionAdvisories(OptionsOf(config))

\* A completed run on a choice whose first option has an option key and no
\* name and whose second option has a name.
C10_Witness ==
    /\ Exited
    /\ exitCode = 0
    /\ potOpened
    /\ WellTyped(config)
    /\ Len(OptionsOf(config)) = 2
    /\ Get(OptionsOf(config)[1], "name") = Absent
    /\ Get(OptionsOf(config)[1], "option") # Absent
    /\ Get(OptionsOf(config)[2], "name") # Absent
    /\ Advisories(stdout, "Invalid option") = <<>>
    /\ Len(potDisk) >= 2

====
